---------------------------- MODULE Spec2Model ----------------------------
(***************************************************************************)
(* A model of the recipe book's computational core: the unit converter and *)
(* the recipe scaler (src/converter.py), the shopping-list aggregator and  *)
(* its formatter (src/shopping.py), over the record store of               *)
(* src/storage.py holding the Recipe records of src/recipe.py, and the     *)
(* operations of that store as the menus of src/main.py call them.         *)
(*                                                                         *)
(* Representation.                                                         *)
(*  - A Python string that the code case-folds or compares (a unit, a      *)
(*    recipe name, an item name) is a sequence of one-character strings,   *)
(*    so that str.lower() is computed character by character and is not    *)
(*    the identity: "Cup" is <<"C","u","p">>. A string the code only       *)
(*    passes along (an instruction, a category, a free-text amount) is a   *)
(*    TLA+ string.                                                         *)
(*  - A dict is a function from its keys; a list is a sequence.            *)
(*  - A number is an integer count of ten-thousandths (ONE = 1.0), so that *)
(*    2 is 20000 and 0.125 is 1250. The conversion factors are scaled the  *)
(*    same way (28.3495 is 283495). Arithmetic is exact decimal            *)
(*    arithmetic; round(x, n) yields the nearest multiple of 10^-n, and    *)
(*    where the exact value is a tie, either neighbour (the binary float   *)
(*    decides).                                                            *)
(*    A function that rounds is therefore the set of values it can return. *)
(*  - A Python value that may be a number, a string or None is a tagged    *)
(*    record: Num(n), Str(s) or None. Python's int and float are not told  *)
(*    apart (2 == 2.0 in Python too).                                      *)
(*  - A Python object is the record of its attributes: reading an          *)
(*    attribute that is no field of the record raises AttributeError.      *)
(*  - The data file is the list of dicts it holds. Where load_recipes is   *)
(*    studied on any content (SpecLoad), the content is tagged: NoFile,    *)
(*    NotJson(text) or Json(value), a JSON list being JArray(elements) and *)
(*    a JSON object JObject(dict).                                         *)
(*  - A call that may raise yields Ok(value) or Raised(exception).         *)
(***************************************************************************)
EXTENDS Integers, Sequences, FiniteSets, TLC

VARIABLES
    pc,          \* the operation that ran last
    c_amount,    \* convert_unit: the amount argument of the last call
    c_from,      \* convert_unit: the from_unit argument
    c_to,        \* convert_unit: the to_unit argument
    c_result,    \* convert_unit: the value returned
    c_back,      \* convert_unit(c_result, c_to, c_from), the way back
    store,       \* the content of DATA_FILE: the recipe dicts in file order
    s_recipe,    \* scale_recipe: the recipe object passed in, as it is now
    s_before,    \* scale_recipe: the same object as it was before the call
    s_new,       \* scale_recipe: the new_servings argument
    s_scaled,    \* scale_recipe: the Recipe returned
    sh_names,    \* generate_shopping_list: the requested recipe names
    shopping,    \* generate_shopping_list: the dict returned ({} before)
    formatted,   \* format_shopping_list: the outcome for that dict
    st_call,     \* the last call of a storage operation or menu: its name and arguments
    returned,    \* what that call returned or raised
    loaded       \* load_recipes: what the call made since then yielded (None before)

vars == <<pc, c_amount, c_from, c_to, c_result, c_back, store,
          s_recipe, s_before, s_new, s_scaled, sh_names, shopping, formatted,
          st_call, returned, loaded>>

convVars == <<c_amount, c_from, c_to, c_result, c_back>>
scaleVars == <<s_recipe, s_before, s_new, s_scaled>>
shopVars == <<sh_names, shopping, formatted>>
storeVars == <<st_call, returned, loaded>>

\* Python values of varying type.
None == [none |-> TRUE]
Num(n) == [num |-> n]
Str(s) == [str |-> s]

\* isinstance(v, (int, float))
IsNumber(v) == DOMAIN v = {"num"}

\* 1.0 in the fixed-point representation of numbers (ten-thousandths).
ONE == 10 * 1000

Abs(n) == IF n < 0 THEN -n ELSE n

-----------------------------------------------------------------------------
(* Strings *)

UpperLetters == <<"A","B","C","D","E","F","G","H","I","J","K","L","M",
                  "N","O","P","Q","R","S","T","U","V","W","X","Y","Z">>
LowerLetters == <<"a","b","c","d","e","f","g","h","i","j","k","l","m",
                  "n","o","p","q","r","s","t","u","v","w","x","y","z">>

\* str.lower() on one character (ASCII letters; any other character is kept).
LowerChar(c) ==
    IF \E i \in 1..26 : UpperLetters[i] = c
    THEN LowerLetters[CHOOSE i \in 1..26 : UpperLetters[i] = c]
    ELSE c

\* str.lower()
Lower(s) == [i \in 1..Len(s) |-> LowerChar(s[i])]

\* str.upper(), used only to build differently cased inputs.
UpperChar(c) ==
    IF \E i \in 1..26 : LowerLetters[i] = c
    THEN UpperLetters[CHOOSE i \in 1..26 : LowerLetters[i] = c]
    ELSE c

Upper(s) == [i \in 1..Len(s) |-> UpperChar(s[i])]

\* str.capitalize() of a lowercase string, used only to build inputs.
Capitalize(s) == [i \in 1..Len(s) |-> IF i = 1 THEN UpperChar(s[i]) ELSE s[i]]

-----------------------------------------------------------------------------
(* Arithmetic *)

\* <<floor(a*p / q), (a*p) mod q>> for a >= 0, p >= 0, q > 0, computed digit
\* by digit of a so that no intermediate value leaves the 32-bit integers.
RECURSIVE MulDivMod(_, _, _)
MulDivMod(a, p, q) ==
    IF a = 0 THEN <<0, 0>>
    ELSE LET h == MulDivMod(a \div 10, p, q)
             t == 10 * h[2] + (a % 10) * p
         IN  <<10 * h[1] + (t \div q), t % q>>

\* The integers round() can return for the exact value fl + r/q: the nearest
\* one, and on an exact decimal tie either neighbour. Python rounds the binary
\* float, which lies just above or just below such a tie (round(0.0005, 3) is
\* 0.001 and round(0.125, 2) is 0.12), so the tie is left open.
Nearest(fl, r, q) ==
    IF 2 * r < q THEN {fl}
    ELSE IF 2 * r > q THEN {fl + 1}
    ELSE {fl, fl + 1}

\* The values of round(a * p / q, ndigits) for a number a and integers p >= 0,
\* q > 0, as numbers; step is ONE / 10^ndigits.
RoundRatio(a, p, q, step) ==
    LET m == MulDivMod(Abs(a), p, q * step)
    IN  {(IF a < 0 THEN -n ELSE n) * step : n \in Nearest(m[1], m[2], q * step)}

-----------------------------------------------------------------------------
(* src/converter.py: the conversion tables, factors in ten-thousandths *)

VOLUME_CONVERSIONS ==
       (<<"m","l">> :> 10000)   \* "ml"
    @@ (<<"m","i","l","l","i","l","i","t","e","r">> :> 10000)   \* "milliliter"
    @@ (<<"m","i","l","l","i","l","i","t","e","r","s">> :> 10000)   \* "milliliters"
    @@ (<<"l">> :> 10000000)   \* "l"
    @@ (<<"l","i","t","e","r">> :> 10000000)   \* "liter"
    @@ (<<"l","i","t","e","r","s">> :> 10000000)   \* "liters"
    @@ (<<"t","s","p">> :> 49290)   \* "tsp"
    @@ (<<"t","e","a","s","p","o","o","n">> :> 49290)   \* "teaspoon"
    @@ (<<"t","e","a","s","p","o","o","n","s">> :> 49290)   \* "teaspoons"
    @@ (<<"t","b","s","p">> :> 147870)   \* "tbsp"
    @@ (<<"t","a","b","l","e","s","p","o","o","n">> :> 147870)   \* "tablespoon"
    @@ (<<"t","a","b","l","e","s","p","o","o","n","s">> :> 147870)   \* "tablespoons"
    @@ (<<"c","u","p">> :> 2365880)   \* "cup"
    @@ (<<"c","u","p","s">> :> 2365880)   \* "cups"
    @@ (<<"f","l"," ","o","z">> :> 295740)   \* "fl oz"
    @@ (<<"f","l","u","i","d"," ","o","u","n","c","e">> :> 295740)   \* "fluid ounce"
    @@ (<<"f","l","u","i","d"," ","o","u","n","c","e","s">> :> 295740)   \* "fluid ounces"

WEIGHT_CONVERSIONS ==
       (<<"g">> :> 10000)   \* "g"
    @@ (<<"g","r","a","m">> :> 10000)   \* "gram"
    @@ (<<"g","r","a","m","s">> :> 10000)   \* "grams"
    @@ (<<"k","g">> :> 10000000)   \* "kg"
    @@ (<<"k","i","l","o","g","r","a","m">> :> 10000000)   \* "kilogram"
    @@ (<<"k","i","l","o","g","r","a","m","s">> :> 10000000)   \* "kilograms"
    @@ (<<"o","z">> :> 283495)   \* "oz"
    @@ (<<"o","u","n","c","e">> :> 283495)   \* "ounce"
    @@ (<<"o","u","n","c","e","s">> :> 283495)   \* "ounces"
    @@ (<<"l","b">> :> 4535920)   \* "lb"
    @@ (<<"p","o","u","n","d">> :> 4535920)   \* "pound"
    @@ (<<"p","o","u","n","d","s">> :> 4535920)   \* "pounds"

\* round(x, 3) and round(x, 2) keep multiples of these steps.
Step3 == ONE \div 1000
Step2 == ONE \div 100

\* A plausible slip: the units are looked up as typed, without .lower().
convert_unit_NoLower(amount, from_unit, to_unit) ==
    IF from_unit \in DOMAIN VOLUME_CONVERSIONS /\ to_unit \in DOMAIN VOLUME_CONVERSIONS
    THEN {Num(n) : n \in RoundRatio(amount, VOLUME_CONVERSIONS[from_unit], VOLUME_CONVERSIONS[to_unit], Step3)}
    ELSE IF from_unit \in DOMAIN WEIGHT_CONVERSIONS /\ to_unit \in DOMAIN WEIGHT_CONVERSIONS
    THEN {Num(n) : n \in RoundRatio(amount, WEIGHT_CONVERSIONS[from_unit], WEIGHT_CONVERSIONS[to_unit], Step3)}
    ELSE {None}

\* A plausible slip: one merged table, so that a volume converts to a weight.
convert_unit_Merged(amount, from_unit, to_unit) ==
    LET all == VOLUME_CONVERSIONS @@ WEIGHT_CONVERSIONS
        f == Lower(from_unit)
        t == Lower(to_unit)
    IN  IF f \in DOMAIN all /\ t \in DOMAIN all
        THEN {Num(n) : n \in RoundRatio(amount, all[f], all[t], Step3)}
        ELSE {None}

\* A plausible slip: the result rounded to 2 decimal places instead of 3.
convert_unit_Round2(amount, from_unit, to_unit) ==
    LET f == Lower(from_unit)
        t == Lower(to_unit)
    IN  IF f \in DOMAIN VOLUME_CONVERSIONS /\ t \in DOMAIN VOLUME_CONVERSIONS
        THEN {Num(n) : n \in RoundRatio(amount, VOLUME_CONVERSIONS[f], VOLUME_CONVERSIONS[t], Step2)}
        ELSE IF f \in DOMAIN WEIGHT_CONVERSIONS /\ t \in DOMAIN WEIGHT_CONVERSIONS
        THEN {Num(n) : n \in RoundRatio(amount, WEIGHT_CONVERSIONS[f], WEIGHT_CONVERSIONS[t], Step2)}
        ELSE {None}

\* A plausible slip: the result truncated to 3 decimal places, not rounded.
convert_unit_Truncate(amount, from_unit, to_unit) ==
    LET f == Lower(from_unit)
        t == Lower(to_unit)
        tr(p, q) == LET n == MulDivMod(Abs(amount), p, q * Step3)[1] * Step3
                    IN  {Num(IF amount < 0 THEN -n ELSE n)}
    IN  IF f \in DOMAIN VOLUME_CONVERSIONS /\ t \in DOMAIN VOLUME_CONVERSIONS
        THEN tr(VOLUME_CONVERSIONS[f], VOLUME_CONVERSIONS[t])
        ELSE IF f \in DOMAIN WEIGHT_CONVERSIONS /\ t \in DOMAIN WEIGHT_CONVERSIONS
        THEN tr(WEIGHT_CONVERSIONS[f], WEIGHT_CONVERSIONS[t])
        ELSE {None}

\* convert_unit(amount, from_unit, to_unit): the values the call can return,
\* the converted amount or None.
convert_unit(amount, from_unit, to_unit) ==
    LET f == Lower(from_unit)
        t == Lower(to_unit)
    IN  IF f \in DOMAIN VOLUME_CONVERSIONS /\ t \in DOMAIN VOLUME_CONVERSIONS
        THEN {Num(n) : n \in RoundRatio(amount, VOLUME_CONVERSIONS[f], VOLUME_CONVERSIONS[t], Step3)}
        ELSE IF f \in DOMAIN WEIGHT_CONVERSIONS /\ t \in DOMAIN WEIGHT_CONVERSIONS
        THEN {Num(n) : n \in RoundRatio(amount, WEIGHT_CONVERSIONS[f], WEIGHT_CONVERSIONS[t], Step3)}
        ELSE {None}

-----------------------------------------------------------------------------
(* Inputs of the converter *)

\* The largest whole part of an amount that is tried.
MaxWhole == 2

\* Fractional parts tried: 0, 0.0004, 0.0005, 0.125.
Fractions == {0, 4, 5, 1250}

Amounts == {s * (w * ONE + f) : s \in {1, -1}, w \in 0..MaxWhole, f \in Fractions}

TableUnits == DOMAIN VOLUME_CONVERSIONS \cup DOMAIN WEIGHT_CONVERSIONS

\* Strings that are in neither table: "", "xyz", "stick", "cup " (trailing blank).
UnknownUnits == {<<>>, <<"x","y","z">>, <<"s","t","i","c","k">>, <<"c","u","p"," ">>}

\* Differently cased spellings: "Cup", "Ml", "Fl oz", "Kg", "Lb".
MixedCaseUnits ==
    {Capitalize(u) : u \in {<<"c","u","p">>, <<"m","l">>, <<"f","l"," ","o","z">>,
                            <<"k","g">>, <<"l","b">>}}

UnitInputs ==
    TableUnits \cup {Upper(u) : u \in TableUnits} \cup MixedCaseUnits \cup UnknownUnits

-----------------------------------------------------------------------------
(* The converter as called from unit_converter_menu *)

InitConvert ==
    /\ pc = "start"
    /\ c_amount = 0 /\ c_from = <<>> /\ c_to = <<>>
    /\ c_result = None /\ c_back = None
    /\ store = <<>>
    /\ s_recipe = None /\ s_before = None /\ s_new = 0 /\ s_scaled = None
    /\ sh_names = <<>> /\ shopping = <<>> /\ formatted = None
    /\ st_call = [op |-> "none"] /\ returned = None /\ loaded = None

\* result = convert_unit(amount, from_unit, to_unit)
ConvertCall ==
    /\ pc = "start"
    /\ \E a \in Amounts, f \in UnitInputs, t \in UnitInputs :
        /\ pc' = "convert_unit"
        /\ c_amount' = a /\ c_from' = f /\ c_to' = t
        /\ c_result' \in convert_unit(a, f, t)
        /\ c_back' = None
        /\ UNCHANGED <<store, scaleVars, shopVars, storeVars>>

\* convert_unit(result, to_unit, from_unit): the conversion back.
ConvertBack ==
    /\ pc = "convert_unit"
    /\ c_result # None
    /\ pc' = "round_trip"
    /\ c_back' \in convert_unit(c_result.num, c_to, c_from)
    /\ UNCHANGED <<c_amount, c_from, c_to, c_result, store, scaleVars, shopVars, storeVars>>

NextConvert == ConvertCall \/ ConvertBack

SpecConvert == InitConvert /\ [][NextConvert]_vars

-----------------------------------------------------------------------------
(* src/recipe.py and src/storage.py: recipes and the record store *)

\* dict.get(key, default)
Get(d, key, default) == IF key \in DOMAIN d THEN d[key] ELSE default

\* Recipe.__init__: the object's attributes.
Recipe(name, ingredients, instructions, prep_time, cook_time, servings, category, rating) ==
    [name |-> name, ingredients |-> ingredients, instructions |-> instructions,
     prep_time |-> prep_time, cook_time |-> cook_time, servings |-> servings,
     category |-> category, rating |-> rating]

\* Recipe.to_dict
to_dict(r) ==
    [name |-> r.name, ingredients |-> r.ingredients,
     instructions |-> r.instructions, prep_time |-> r.prep_time,
     cook_time |-> r.cook_time, servings |-> r.servings,
     category |-> r.category, rating |-> r.rating]

\* The keys Recipe.from_dict reads with data[...]: a KeyError without them.
RequiredKeys == {"name", "ingredients", "instructions"}

\* Recipe.from_dict, for a dict that has the required keys.
from_dict(data) ==
    Recipe(data["name"], data["ingredients"], data["instructions"],
           Get(data, "prep_time", 0), Get(data, "cook_time", 0),
           Get(data, "servings", 1), Get(data, "category", ""),
           Get(data, "rating", 0))

\* load_recipes, for a data file holding the list of dicts `data`: the KeyError
\* of any from_dict is caught and [] returned.
load_recipes(data) ==
    IF \A i \in 1..Len(data) : RequiredKeys \subseteq DOMAIN data[i]
    THEN [i \in 1..Len(data) |-> from_dict(data[i])]
    ELSE <<>>

-----------------------------------------------------------------------------
(* src/converter.py: scale_recipe *)

\* The sequences that take their i-th element from the i-th set of `sets`.
RECURSIVE Choices(_)
Choices(sets) ==
    IF Len(sets) = 0 THEN {<<>>}
    ELSE {<<x>> \o rest : x \in Head(sets), rest \in Choices(Tail(sets))}

\* new_servings / recipe.servings as <<numerator, denominator, sign>>, or 1
\* when recipe.servings == 0.
ScaleFactor(servings, new_servings) ==
    IF servings = 0 THEN <<1, 1, 1>>
    ELSE <<Abs(new_servings), Abs(servings),
           IF (new_servings < 0) = (servings < 0) THEN 1 ELSE -1>>

\* The values one ingredient can have after the loop body of scale_recipe.
ScaledIngredient(ing, factor) ==
    IF IsNumber(Get(ing, "amount", None))
    THEN {[ing EXCEPT !["amount"] = Num(n)] :
             n \in RoundRatio(factor[3] * ing["amount"].num, factor[1], factor[2], Step2)}
    ELSE {ing}

\* A plausible slip: the zero-servings guard is missing and the factor is 0.
scale_recipe_ZeroFactor(recipe, new_servings) ==
    LET factor == IF recipe.servings = 0 THEN <<0, 1, 1>>
                  ELSE ScaleFactor(recipe.servings, new_servings)
        sets == [i \in 1..Len(recipe.ingredients) |->
                    ScaledIngredient(recipe.ingredients[i], factor)]
    IN  {[ret |-> Recipe(recipe.name, scaled_ingredients, recipe.instructions,
                         recipe.prep_time, recipe.cook_time, new_servings,
                         recipe.category, 0),
          arg |-> recipe] : scaled_ingredients \in Choices(sets)}

\* A plausible slip: free-text amounts are replaced instead of passed through.
scale_recipe_DropText(recipe, new_servings) ==
    LET factor == ScaleFactor(recipe.servings, new_servings)
        sets == [i \in 1..Len(recipe.ingredients) |->
                    IF "amount" \in DOMAIN recipe.ingredients[i]
                       /\ ~IsNumber(recipe.ingredients[i]["amount"])
                    THEN {[recipe.ingredients[i] EXCEPT !["amount"] = Num(0)]}
                    ELSE ScaledIngredient(recipe.ingredients[i], factor)]
    IN  {[ret |-> Recipe(recipe.name, scaled_ingredients, recipe.instructions,
                         recipe.prep_time, recipe.cook_time, new_servings,
                         recipe.category, 0),
          arg |-> recipe] : scaled_ingredients \in Choices(sets)}

\* A plausible slip: the ingredient dicts are not copied (no ing.copy()), so
\* the scaled amounts are written into the input recipe's own ingredients.
scale_recipe_NoCopy(recipe, new_servings) ==
    LET factor == ScaleFactor(recipe.servings, new_servings)
        sets == [i \in 1..Len(recipe.ingredients) |->
                    ScaledIngredient(recipe.ingredients[i], factor)]
    IN  {[ret |-> Recipe(recipe.name, scaled_ingredients, recipe.instructions,
                         recipe.prep_time, recipe.cook_time, new_servings,
                         recipe.category, 0),
          arg |-> [recipe EXCEPT !.ingredients = scaled_ingredients]] :
            scaled_ingredients \in Choices(sets)}

\* A plausible slip: the rating of the input recipe is passed on to the Recipe
\* that is returned.
scale_recipe_KeepRating(recipe, new_servings) ==
    LET factor == ScaleFactor(recipe.servings, new_servings)
        sets == [i \in 1..Len(recipe.ingredients) |->
                    ScaledIngredient(recipe.ingredients[i], factor)]
    IN  {[ret |-> Recipe(recipe.name, scaled_ingredients, recipe.instructions,
                         recipe.prep_time, recipe.cook_time, new_servings,
                         recipe.category, recipe.rating),
          arg |-> recipe] : scaled_ingredients \in Choices(sets)}

\* scale_recipe(recipe, new_servings): the outcomes of the call, each the
\* Recipe returned (ret) and the input recipe as the call leaves it (arg). The
\* loop copies every ingredient dict before it assigns the new amount, and the
\* Recipe is built without a rating, which defaults to 0.
scale_recipe(recipe, new_servings) ==
    LET factor == ScaleFactor(recipe.servings, new_servings)
        sets == [i \in 1..Len(recipe.ingredients) |->
                    ScaledIngredient(recipe.ingredients[i], factor)]
    IN  {[ret |-> Recipe(recipe.name, scaled_ingredients, recipe.instructions,
                         recipe.prep_time, recipe.cook_time, new_servings,
                         recipe.category, 0),
          arg |-> recipe] : scaled_ingredients \in Choices(sets)}

-----------------------------------------------------------------------------
(* Inputs of the scaler and of the aggregator: ingredients as the "amount unit
   item" lines of add_new_recipe build them, or as a data file may hold them *)

Ingredient(amount, unit, item) == [amount |-> amount, unit |-> unit, item |-> item]

\* "2 cup flour"
Flour2 == Ingredient(Num(2 * ONE), <<"c","u","p">>, <<"f","l","o","u","r">>)
\* "0.125 cup butter"
Butter == Ingredient(Num(1250), <<"c","u","p">>, <<"b","u","t","t","e","r">>)
\* "0.3333 l milk"
Milk == Ingredient(Num(3333), <<"l">>, <<"m","i","l","k">>)
\* "1 cup Sugar"
SugarCup == Ingredient(Num(ONE), <<"c","u","p">>, <<"S","u","g","a","r">>)
\* "some cup sugar": a free-text amount
SugarSome == Ingredient(Str("some"), <<"c","u","p">>, <<"s","u","g","a","r">>)
\* "0.5 ml SUGAR"
SugarMl == Ingredient(Num(5000), <<"m","l">>, <<"S","U","G","A","R">>)
\* A data-file ingredient with an item only, no amount and no unit key.
SaltBare == [item |-> <<"s","a","l","t">>]
\* 1.5 "Cup" of sugar: the unit of SugarCup but for the case of one letter.
SugarCaps == Ingredient(Num(ONE + (ONE \div 2)), <<"C","u","p">>, <<"s","u","g","a","r">>)

NamePie == <<"P","i","e">>
NameJam == <<"J","a","m">>
NameNope == <<"N","o","p","e">>

\* The largest servings count of a stored recipe that is tried.
MaxServings == 4

\* servings of a stored recipe: an int, which the program never validates.
ServingsTried == -1..MaxServings

\* new_servings: any int the user types.
NewServingsTried == -1..(2 * MaxServings)

ScaleIngredientLists ==
    {<<>>, <<Flour2>>, <<Butter, SugarSome>>, <<SugarSome, Flour2, SaltBare>>,
     <<Milk, Butter>>}

\* A data-file record without the optional keys.
JamDict == [name |-> NameJam, ingredients |-> <<Flour2>>, instructions |-> <<"Boil">>]

\* The largest rating: rate_recipe_menu accepts 0 <= rating <= 5.
MaxRating == 5

ScaleDicts ==
    {to_dict(Recipe(NamePie, ings, <<"Mix", "Bake">>, 10, 30, sv, "dessert", rating)) :
        ings \in ScaleIngredientLists, sv \in ServingsTried, rating \in 0..MaxRating}

ScaleStores == {<<d>> : d \in ScaleDicts} \cup {<<JamDict, d>> : d \in ScaleDicts}

-----------------------------------------------------------------------------
(* The scaler as called from scale_recipe_menu *)

InitScale ==
    /\ pc = "start"
    /\ c_amount = 0 /\ c_from = <<>> /\ c_to = <<>>
    /\ c_result = None /\ c_back = None
    /\ store \in ScaleStores
    /\ s_recipe = None /\ s_before = None /\ s_new = 0 /\ s_scaled = None
    /\ sh_names = <<>> /\ shopping = <<>> /\ formatted = None
    /\ st_call = [op |-> "none"] /\ returned = None /\ loaded = None

\* recipes = load_recipes(); recipe = recipes[choice - 1];
\* scaled = scale_recipe(recipe, new_servings)
ScaleRecipeMenu ==
    /\ pc = "start"
    /\ load_recipes(store) # <<>>
    /\ \E choice \in 1..Len(load_recipes(store)), new_servings \in NewServingsTried :
         \E out \in scale_recipe(load_recipes(store)[choice], new_servings) :
            /\ pc' = "scale_recipe"
            /\ s_before' = load_recipes(store)[choice]
            /\ s_recipe' = out.arg
            /\ s_new' = new_servings
            /\ s_scaled' = out.ret
            /\ UNCHANGED <<store, convVars, shopVars, storeVars>>

NextScale == ScaleRecipeMenu

SpecScale == InitScale /\ [][NextScale]_vars

-----------------------------------------------------------------------------
(* src/shopping.py: generate_shopping_list *)

\* recipe_dict.get(key) for recipe_dict = {r.name.lower(): r for r in recipes}:
\* of several recipes with one lowercased name the last one stays; None when
\* there is none.
recipe_dict_get(recipes, key) ==
    LET hits == {i \in 1..Len(recipes) : Lower(recipes[i].name) = key}
    IN  IF hits = {} THEN None
        ELSE recipes[CHOOSE i \in hits : \A j \in hits : j <= i]

\* shopping[item].append(entry) on a defaultdict(list)
AppendEntry(shopping_dict, item, entry) ==
    IF item \in DOMAIN shopping_dict
    THEN [shopping_dict EXCEPT ![item] = Append(@, entry)]
    ELSE shopping_dict @@ (item :> <<entry>>)

\* A plausible slip: the bucket key is the item as written, not lowercased.
ShoppingEntry_NoLower(ing, recipe) ==
    [item |-> Get(ing, "item", <<>>),
     entry |-> [amount |-> Get(ing, "amount", Num(0)),
                unit |-> Get(ing, "unit", <<>>),
                recipe |-> recipe.name]]

\* The bucket key and the entry the inner loop builds from one ingredient.
ShoppingEntry(ing, recipe) ==
    [item |-> Lower(Get(ing, "item", <<>>)),
     entry |-> [amount |-> Get(ing, "amount", Num(0)),
                unit |-> Get(ing, "unit", <<>>),
                recipe |-> recipe.name]]

\* The inner loop: for ing in recipe.ingredients, from ingredient i on.
RECURSIVE AddIngredients(_, _, _)
AddIngredients(shopping_dict, recipe, i) ==
    IF i > Len(recipe.ingredients) THEN shopping_dict
    ELSE LET e == ShoppingEntry(recipe.ingredients[i], recipe)
         IN  AddIngredients(AppendEntry(shopping_dict, e.item, e.entry), recipe, i + 1)

\* A plausible slip: the requested name is looked up as typed.
ResolveName_NoLower(recipes, name) == recipe_dict_get(recipes, name)

\* recipe_dict.get(name.lower())
ResolveName(recipes, name) == recipe_dict_get(recipes, Lower(name))

\* The outer loop: for name in recipe_names, from name n on.
RECURSIVE AddRecipes(_, _, _, _)
AddRecipes(shopping_dict, recipes, recipe_names, n) ==
    IF n > Len(recipe_names) THEN shopping_dict
    ELSE LET recipe == ResolveName(recipes, recipe_names[n])
         IN  AddRecipes(IF recipe # None
                        THEN AddIngredients(shopping_dict, recipe, 1)
                        ELSE shopping_dict,
                        recipes, recipe_names, n + 1)

\* generate_shopping_list(recipe_names), with `data` the content of the data
\* file: the dict from lowercased item to its entries.
generate_shopping_list(data, recipe_names) ==
    AddRecipes(<<>>, load_recipes(data), recipe_names, 1)

-----------------------------------------------------------------------------
(* src/shopping.py: format_shopping_list *)

\* The characters of the inputs in code-point order.
CodePoints == <<" ">> \o UpperLetters \o LowerLetters

Ord(c) == CHOOSE i \in 1..Len(CodePoints) : CodePoints[i] = c

\* s < t for Python strings
RECURSIVE StrLess(_, _)
StrLess(s, t) ==
    IF Len(t) = 0 THEN FALSE
    ELSE IF Len(s) = 0 THEN TRUE
    ELSE IF Head(s) # Head(t) THEN Ord(Head(s)) < Ord(Head(t))
    ELSE StrLess(Tail(s), Tail(t))

\* sorted(keys)
RECURSIVE Sorted(_)
Sorted(keys) ==
    IF keys = {} THEN <<>>
    ELSE LET least == CHOOSE k \in keys : \A o \in keys \ {k} : StrLess(k, o)
         IN  <<least>> \o Sorted(keys \ {least})

\* The outcome of a step: the value it yields, or the exception it raises.
Ok(value) == [ok |-> value]
Raised(exception) == [raised |-> exception]

IsRaised(outcome) == "raised" \in DOMAIN outcome

\* Position of `unit` among the keys of `combined`, 0 when it is no key.
UnitIndex(combined, unit) ==
    IF \E i \in 1..Len(combined) : combined[i].unit = unit
    THEN CHOOSE i \in 1..Len(combined) : combined[i].unit = unit
    ELSE 0

\* CombineEntry with `combined[unit] = amount` for a number too.
CombineEntry_Assign(combined, entry) ==
    LET i == UnitIndex(combined, entry.unit)
    IN  IF i = 0
        THEN Ok(Append(combined, [unit |-> entry.unit, amount |-> entry.amount]))
        ELSE Ok([combined EXCEPT ![i].amount = entry.amount])

\* One turn of `for entry in entries` on combined = defaultdict(float), kept as
\* its (unit, amount) items in insertion order: a number is added to the
\* unit's value (0.0 when the unit is new), which raises TypeError when that
\* value is a str; any other amount replaces the value.
CombineEntry(combined, entry) ==
    LET i == UnitIndex(combined, entry.unit)
    IN  IF IsNumber(entry.amount)
        THEN IF i = 0
             THEN Ok(Append(combined, [unit |-> entry.unit,
                                       amount |-> Num(0 + entry.amount.num)]))
             ELSE IF IsNumber(combined[i].amount)
             THEN Ok([combined EXCEPT ![i].amount = Num(@.num + entry.amount.num)])
             ELSE Raised("TypeError")
        ELSE IF i = 0
             THEN Ok(Append(combined, [unit |-> entry.unit, amount |-> entry.amount]))
             ELSE Ok([combined EXCEPT ![i].amount = entry.amount])

\* The loop over the entries of one item, from entry n on, given the outcome
\* so far.
RECURSIVE Combine(_, _, _)
Combine(outcome, entries, n) ==
    IF IsRaised(outcome) \/ n > Len(entries) THEN outcome
    ELSE Combine(CombineEntry(outcome.ok, entries[n]), entries, n + 1)

\* bool(amount)
Truthy(amount) ==
    IF IsNumber(amount) THEN amount.num # 0
    ELSE IF DOMAIN amount = {"str"} THEN amount.str # ""
    ELSE FALSE

\* str(n) of a natural number, as its decimal digits.
Digits == <<"0", "1", "2", "3", "4", "5", "6", "7", "8", "9">>

RECURSIVE NatText(_)
NatText(n) ==
    IF n < 10 THEN <<Digits[n + 1]>>
    ELSE NatText(n \div 10) \o <<Digits[(n % 10) + 1]>>

\* The digits after the point of f (in units of 10 * place, f < 10 * place),
\* down to the last one that is not zero.
RECURSIVE FracText(_, _)
FracText(f, place) ==
    IF f = 0 THEN <<>>
    ELSE <<Digits[(f \div place) + 1]>> \o FracText(f % place, place \div 10)

\* The {amount} of the f-string, after `if isinstance(amount, float) and
\* amount == int(amount): amount = int(amount)`: a value of combined that is a
\* number is a float (0.0 + ...), so an integral one is shown as an int and
\* any other by its shortest decimal numeral; a str is shown as it is (one
\* opaque element).
AmountText(amount) ==
    IF IsNumber(amount)
    THEN (IF amount.num < 0 THEN <<"-">> ELSE <<>>)
         \o NatText(Abs(amount.num) \div ONE)
         \o (IF amount.num % ONE = 0 THEN <<>>
             ELSE <<".">> \o FracText(Abs(amount.num) % ONE, ONE \div 10))
    ELSE IF DOMAIN amount = {"str"} THEN <<amount.str>>
    ELSE <<"None">>

\* f"{amount} {unit}" when the unit is not empty, str(amount) otherwise.
Fragment(unit, amount) ==
    IF unit # <<>> THEN AmountText(amount) \o <<" ">> \o unit
    ELSE AmountText(amount)

\* parts: one "amount unit" fragment per unit with a non-empty name, the bare
\* amount for the empty unit when the amount is truthy, from item n on; each
\* fragment is kept with the unit and the value it renders.
RECURSIVE Parts(_, _)
Parts(combined, n) ==
    IF n > Len(combined) THEN <<>>
    ELSE (IF combined[n].unit # <<>> \/ Truthy(combined[n].amount)
          THEN <<[unit |-> combined[n].unit, amount |-> combined[n].amount,
                  text |-> Fragment(combined[n].unit, combined[n].amount)]>>
          ELSE <<>>) \o Parts(combined, n + 1)

\* The lines of the items `keys` (already sorted), from key n on; a raise in
\* one item's loop ends the call.
RECURSIVE ItemLines(_, _, _)
ItemLines(shopping_dict, keys, n) ==
    IF n > Len(keys) THEN Ok(<<>>)
    ELSE LET combined == Combine(Ok(<<>>), shopping_dict[keys[n]], 1)
             rest == ItemLines(shopping_dict, keys, n + 1)
         IN  IF IsRaised(combined) THEN combined
             ELSE IF IsRaised(rest) THEN rest
             ELSE Ok(<<[item |-> keys[n], parts |-> Parts(combined.ok, 1)]>> \o rest.ok)

\* format_shopping_list(shopping_dict): the string returned, as its lines
\* (the header, one line per item as its item and fragments, the closing empty
\* line), or the exception raised.
format_shopping_list(shopping_dict) ==
    IF DOMAIN shopping_dict = {}
    THEN Ok(<<[text |-> "Shopping list is empty."]>>)
    ELSE LET body == ItemLines(shopping_dict, Sorted(DOMAIN shopping_dict), 1)
         IN  IF IsRaised(body) THEN body
             ELSE Ok(<<[text |-> "\n--- Shopping List ---\n"]>> \o body.ok \o <<[text |-> ""]>>)

-----------------------------------------------------------------------------
(* Inputs of the aggregator *)

\* The most recipes in the data file, and the most requested names.
MaxRecipes == 2
MaxNames == 2

SeqsUpTo(S, n) == UNION {[1..k -> S] : k \in 0..n}

ShopIngredientLists ==
    {<<>>, <<SugarCaps, SugarCup>>, <<SugarCup, SugarSome>>, <<SugarSome, SugarCup>>,
     <<SugarMl, SaltBare>>}

\* Stored names: "Pie", "PIE" (the same name ignoring case) and "Jam".
ShopDicts ==
    {to_dict(Recipe(name, ings, <<"Mix">>, 0, 0, 1, "", 0)) :
        name \in {NamePie, Upper(NamePie), NameJam}, ings \in ShopIngredientLists}

ShopStores == SeqsUpTo(ShopDicts, MaxRecipes)

\* Requested names: "pie", "JAM" and "Nope", which no recipe has.
RequestedNames == SeqsUpTo({Lower(NamePie), Upper(NameJam), NameNope}, MaxNames)

-----------------------------------------------------------------------------
(* The aggregator as called from the shopping-list menu *)

InitShop ==
    /\ pc = "start"
    /\ c_amount = 0 /\ c_from = <<>> /\ c_to = <<>>
    /\ c_result = None /\ c_back = None
    /\ store \in ShopStores
    /\ s_recipe = None /\ s_before = None /\ s_new = 0 /\ s_scaled = None
    /\ sh_names = <<>> /\ shopping = <<>> /\ formatted = None
    /\ st_call = [op |-> "none"] /\ returned = None /\ loaded = None

\* shopping = generate_shopping_list(selected_names)
GenerateShoppingList ==
    /\ pc = "start"
    /\ \E recipe_names \in RequestedNames :
          /\ sh_names' = recipe_names
          /\ shopping' = generate_shopping_list(store, recipe_names)
    /\ pc' = "generate_shopping_list"
    /\ UNCHANGED <<store, formatted, convVars, scaleVars, storeVars>>

\* print(format_shopping_list(shopping))
FormatShoppingList ==
    /\ pc = "generate_shopping_list"
    /\ formatted' = format_shopping_list(shopping)
    /\ pc' = "format_shopping_list"
    /\ UNCHANGED <<store, sh_names, shopping, convVars, scaleVars, storeVars>>

NextShop == GenerateShoppingList \/ FormatShoppingList

SpecShop == InitShop /\ [][NextShop]_vars

-----------------------------------------------------------------------------
(* src/storage.py: the operations on the data file *)

\* save_recipes(recipes): the list of dicts written to the data file.
save_recipes(recipes) == [i \in 1..Len(recipes) |-> to_dict(recipes[i])]

\* add_recipe(recipe), on the data file `data`: the data file afterwards.
add_recipe(data, recipe) == save_recipes(Append(load_recipes(data), recipe))

\* delete_recipe(name): the data file afterwards and the value returned.
delete_recipe(data, name) ==
    LET recipes == load_recipes(data)
        kept == SelectSeq(recipes, LAMBDA r : Lower(r.name) # Lower(name))
    IN  IF Len(kept) < Len(recipes)
        THEN [file |-> save_recipes(kept), ret |-> TRUE]
        ELSE [file |-> data, ret |-> FALSE]

\* update_recipe(old_name, updated_recipe): the data file afterwards and the
\* value returned; the first recipe with that name, ignoring case, is replaced.
update_recipe(data, old_name, updated_recipe) ==
    LET recipes == load_recipes(data)
        found == {i \in 1..Len(recipes) : Lower(recipes[i].name) = Lower(old_name)}
    IN  IF found = {} THEN [file |-> data, ret |-> FALSE]
        ELSE LET i == CHOOSE i \in found : \A j \in found : i <= j
             IN  [file |-> save_recipes([recipes EXCEPT ![i] = updated_recipe]),
                  ret |-> TRUE]

\* One turn of `for recipe_data in data` of import_recipes, on the locals
\* existing, existing_names, imported and skipped.
ImportOne(locals, recipe_data, overwrite) ==
    LET recipe == from_dict(recipe_data)
        name_lower == Lower(recipe.name)
    IN  IF name_lower \in locals.existing_names
        THEN IF overwrite
             THEN [locals EXCEPT
                     !.existing = Append(SelectSeq(@, LAMBDA r : Lower(r.name) # name_lower),
                                         recipe),
                     !.imported = @ + 1]
             ELSE [locals EXCEPT !.skipped = @ + 1]
        ELSE [locals EXCEPT !.existing = Append(@, recipe),
                            !.existing_names = @ \cup {name_lower},
                            !.imported = @ + 1]

\* The loop of import_recipes from the entry n of the import file on.
RECURSIVE ImportLoop(_, _, _, _)
ImportLoop(locals, import_data, n, overwrite) ==
    IF n > Len(import_data) THEN locals
    ELSE ImportLoop(ImportOne(locals, import_data[n], overwrite),
                    import_data, n + 1, overwrite)

\* import_recipes(filepath, overwrite): the data file afterwards and what the
\* call returns (imported, skipped) or raises. The import file is missing, or
\* holds a list of dicts that have the keys Recipe.from_dict requires.
import_recipes(data, import_file, overwrite) ==
    IF "missing" \in DOMAIN import_file
    THEN [file |-> data, ret |-> Raised("FileNotFoundError")]
    ELSE LET existing == load_recipes(data)
             done == ImportLoop([existing |-> existing,
                                 existing_names |->
                                     {Lower(existing[i].name) : i \in 1..Len(existing)},
                                 imported |-> 0, skipped |-> 0],
                                import_file.data, 1, overwrite)
         IN  [file |-> save_recipes(done.existing),
              ret |-> Ok([imported |-> done.imported, skipped |-> done.skipped])]

-----------------------------------------------------------------------------
(* src/main.py: toggle_favorite_menu *)

\* recipe.favorite = favorite, on a Recipe object.
WithFavorite(recipe, favorite) ==
    [a \in DOMAIN recipe \cup {"favorite"} |->
        IF a = "favorite" THEN favorite ELSE recipe[a]]

\* display_recipe_list(recipes): reading r.favorite of a Recipe that has no
\* such attribute raises AttributeError.
display_recipe_list(recipes) ==
    IF recipes = <<>> THEN Ok(None)
    ELSE IF \E i \in 1..Len(recipes) : "favorite" \notin DOMAIN recipes[i]
    THEN Raised("AttributeError")
    ELSE Ok(None)

\* toggle_favorite_menu(), the user typing the number `choice`: the data file
\* afterwards and what the menu returns or raises.
toggle_favorite_menu(data, choice) ==
    LET recipes == load_recipes(data)
    IN  IF recipes = <<>> THEN [file |-> data, ret |-> Ok(None)]
        ELSE IF IsRaised(display_recipe_list(recipes))
        THEN [file |-> data, ret |-> display_recipe_list(recipes)]
        ELSE IF choice = 0 \/ ~(0 < choice /\ choice <= Len(recipes))
        THEN [file |-> data, ret |-> Ok(None)]
        ELSE IF "favorite" \notin DOMAIN recipes[choice]
        THEN [file |-> data, ret |-> Raised("AttributeError")]
        ELSE LET recipe == WithFavorite(recipes[choice], ~recipes[choice].favorite)
             IN  [file |-> update_recipe(data, recipe.name, recipe).file,
                  ret |-> Ok(None)]

-----------------------------------------------------------------------------
(* Inputs of the storage operations *)

\* The most recipes the data file holds.
MaxStored == 2

\* Names given to new recipes: "Pie", "PIE" (the same name ignoring case), "Jam".
StoreNames == {NamePie, Upper(NamePie), NameJam}

\* Names looked up: "pie", "Jam" and "Nope", which no recipe has.
LookupNames == {Lower(NamePie), NameJam, NameNope}

\* Ratings of the recipes handed to the storage operations.
RatingsTried == {0, 4}

\* Recipe objects as the menus construct them.
NewRecipes ==
    {Recipe(name, <<SugarCup>>, <<"Mix">>, 0, 0, 1, "", rating) :
        name \in StoreNames, rating \in RatingsTried}

\* Recipe objects handed to update_recipe: as constructed, or with a favorite
\* attribute set on them (True on the rated ones, False on the unrated ones).
UpdatedRecipes ==
    NewRecipes \cup {WithFavorite(r, r.rating > 0) : r \in NewRecipes}

\* Import files: a path with no file, or a file with a list of dicts (JamDict
\* has none of the optional keys; "Pie" and "PIE" are one name ignoring case).
ImportFiles ==
    {[missing |-> TRUE], [data |-> <<>>], [data |-> <<JamDict>>],
     [data |-> <<to_dict(Recipe(NamePie, <<SugarCup>>, <<"Mix">>, 0, 0, 1, "", 0)),
                 to_dict(Recipe(Upper(NamePie), <<Flour2>>, <<"Mix">>, 0, 0, 1, "", 4))>>]}

-----------------------------------------------------------------------------
(* The storage operations as called from the menus, from an empty data file *)

InitStore ==
    /\ pc = "start"
    /\ c_amount = 0 /\ c_from = <<>> /\ c_to = <<>>
    /\ c_result = None /\ c_back = None
    /\ store = <<>>
    /\ s_recipe = None /\ s_before = None /\ s_new = 0 /\ s_scaled = None
    /\ sh_names = <<>> /\ shopping = <<>> /\ formatted = None
    /\ st_call = [op |-> "none"] /\ returned = None /\ loaded = None

\* add_recipe(recipe)
AddRecipe ==
    /\ Len(store) < MaxStored
    /\ \E recipe \in NewRecipes :
          /\ st_call' = [op |-> "add_recipe", recipe |-> recipe]
          /\ store' = add_recipe(store, recipe)
    /\ returned' = Ok(None)
    /\ loaded' = None
    /\ pc' = "add_recipe"
    /\ UNCHANGED <<convVars, scaleVars, shopVars>>

\* delete_recipe(name)
DeleteRecipe ==
    /\ \E name \in LookupNames :
          LET done == delete_recipe(store, name)
          IN  /\ st_call' = [op |-> "delete_recipe", name |-> name]
              /\ store' = done.file
              /\ returned' = Ok(done.ret)
    /\ loaded' = None
    /\ pc' = "delete_recipe"
    /\ UNCHANGED <<convVars, scaleVars, shopVars>>

\* update_recipe(old_name, updated_recipe)
UpdateRecipe ==
    /\ \E old_name \in LookupNames, updated_recipe \in UpdatedRecipes :
          LET done == update_recipe(store, old_name, updated_recipe)
          IN  /\ st_call' = [op |-> "update_recipe", old_name |-> old_name,
                             recipe |-> updated_recipe]
              /\ store' = done.file
              /\ returned' = Ok(done.ret)
    /\ loaded' = None
    /\ pc' = "update_recipe"
    /\ UNCHANGED <<convVars, scaleVars, shopVars>>

\* import_recipes(filepath, overwrite)
ImportRecipes ==
    /\ \E import_file \in ImportFiles, overwrite \in BOOLEAN :
          LET done == import_recipes(store, import_file, overwrite)
          IN  /\ Len(done.file) <= MaxStored
              /\ st_call' = [op |-> "import_recipes", import_file |-> import_file,
                             overwrite |-> overwrite]
              /\ store' = done.file
              /\ returned' = done.ret
    /\ loaded' = None
    /\ pc' = "import_recipes"
    /\ UNCHANGED <<convVars, scaleVars, shopVars>>

\* toggle_favorite_menu()
ToggleFavoriteMenu ==
    /\ \E choice \in 0..MaxStored :
          LET done == toggle_favorite_menu(store, choice)
          IN  /\ st_call' = [op |-> "toggle_favorite_menu", choice |-> choice]
              /\ store' = done.file
              /\ returned' = done.ret
    /\ loaded' = None
    /\ pc' = "toggle_favorite_menu"
    /\ UNCHANGED <<convVars, scaleVars, shopVars>>

\* load_recipes(), by whichever menu runs next
LoadRecipes ==
    /\ loaded' = Ok(load_recipes(store))
    /\ pc' = "load_recipes"
    /\ UNCHANGED <<store, st_call, returned, convVars, scaleVars, shopVars>>

NextStore ==
    \/ AddRecipe
    \/ DeleteRecipe
    \/ UpdateRecipe
    \/ ImportRecipes
    \/ ToggleFavoriteMenu
    \/ LoadRecipes

SpecStore == InitStore /\ [][NextStore]_vars

-----------------------------------------------------------------------------
(* src/storage.py: load_recipes on any content of the data file *)

\* What json.load yields: a list, a dict, or a number (Num), a string (Str)
\* or null (None).
JArray(elements) == [array |-> elements]
JObject(dict) == [object |-> dict]

\* The contents of the data file: no file, text that is not JSON, or a JSON
\* document.
NoFile == [missing |-> TRUE]
NotJson(text) == [text |-> text]
Json(value) == [json |-> value]

\* Recipe.from_dict(r) succeeds on a dict with the required keys; a dict
\* without one raises KeyError, and data["name"] on a value that is no dict
\* raises TypeError.
FromDictRaises(r) ==
    IF "object" \notin DOMAIN r THEN "TypeError"
    ELSE IF ~(RequiredKeys \subseteq DOMAIN r.object) THEN "KeyError"
    ELSE "none"

\* load_recipes(), for the data file content `content`: [] without a file;
\* json.JSONDecodeError and KeyError are caught and give []; the list
\* comprehension stops at the first element from_dict raises on; iterating a
\* dict yields its keys, which are strings; a number or null is not iterable.
\* Any other exception leaves the function.
load_data_file(content) ==
    IF "missing" \in DOMAIN content THEN Ok(<<>>)
    ELSE IF "text" \in DOMAIN content THEN Ok(<<>>)
    ELSE LET data == content.json
         IN  IF "array" \in DOMAIN data
             THEN LET raising == {i \in 1..Len(data.array) :
                                     FromDictRaises(data.array[i]) # "none"}
                  IN  IF raising = {}
                      THEN Ok(load_recipes([i \in 1..Len(data.array) |->
                                                data.array[i].object]))
                      ELSE LET first == CHOOSE i \in raising : \A j \in raising : i <= j
                           IN  IF FromDictRaises(data.array[first]) = "KeyError"
                               THEN Ok(<<>>)
                               ELSE Raised(FromDictRaises(data.array[first]))
             ELSE IF "object" \in DOMAIN data
             THEN IF DOMAIN data.object = {} THEN Ok(<<>>) ELSE Raised("TypeError")
             ELSE Raised("TypeError")

\* The most elements of the list in the data file.
MaxElements == 2

\* Elements of that list: two recipe dicts (JamDict without the optional
\* keys), a dict without "name", a number, a string, null and a list.
FileElements ==
    {JObject(to_dict(Recipe(NamePie, <<SugarCup>>, <<"Mix">>, 0, 0, 1, "", 4))),
     JObject(JamDict),
     JObject([ingredients |-> <<Flour2>>, instructions |-> <<"Boil">>]),
     Num(ONE), Str("Pie"), None, JArray(<<>>)}

FileContents ==
    {NoFile, NotJson(""), NotJson("[{"), Json(Num(ONE)), Json(None),
     Json(JObject(<<>>)), Json(JObject([recipes |-> <<>>]))}
    \cup {Json(JArray(elements)) : elements \in SeqsUpTo(FileElements, MaxElements)}

InitLoad ==
    /\ pc = "start"
    /\ c_amount = 0 /\ c_from = <<>> /\ c_to = <<>>
    /\ c_result = None /\ c_back = None
    /\ store \in FileContents
    /\ s_recipe = None /\ s_before = None /\ s_new = 0 /\ s_scaled = None
    /\ sh_names = <<>> /\ shopping = <<>> /\ formatted = None
    /\ st_call = [op |-> "none"] /\ returned = None /\ loaded = None

\* recipes = load_recipes(), as every menu begins
LoadDataFile ==
    /\ pc = "start"
    /\ loaded' = load_data_file(store)
    /\ pc' = "load_recipes"
    /\ UNCHANGED <<store, st_call, returned, convVars, scaleVars, shopVars>>

NextLoad == LoadDataFile

SpecLoad == InitLoad /\ [][NextLoad]_vars

-----------------------------------------------------------------------------
(* Claims about convert_unit, checked under SpecConvert *)

\* The domain a unit string resolves to, case-insensitively.
DomainOf(u) ==
    IF Lower(u) \in DOMAIN VOLUME_CONVERSIONS THEN "volume"
    ELSE IF Lower(u) \in DOMAIN WEIGHT_CONVERSIONS THEN "weight"
    ELSE "unknown"

\* The factor of a unit string that resolves to a domain.
FactorOf(u) ==
    IF Lower(u) \in DOMAIN VOLUME_CONVERSIONS
    THEN VOLUME_CONVERSIONS[Lower(u)] ELSE WEIGHT_CONVERSIONS[Lower(u)]

SameDomain(u, v) == DomainOf(u) # "unknown" /\ DomainOf(u) = DomainOf(v)

\* r is a multiple of step nearest to a * p / q (either neighbour on a tie).
IsNearest(r, a, p, q, step) ==
    LET m == MulDivMod(Abs(a), p, q * step)
        t == (IF a < 0 THEN -r ELSE r) \div step
    IN  /\ r % step = 0
        /\ \/ t = m[1] /\ 2 * m[2] <= q * step
           \/ t = m[1] + 1 /\ 2 * m[2] >= q * step

UnitCup == <<"c","u","p">>
UnitCups == <<"c","u","p","s">>
UnitMl == <<"m","l">>
UnitGram == <<"g","r","a","m">>
UnitTsp == <<"t","s","p">>
UnitL == <<"l">>

\* C1: convert_unit returns None whenever the two units resolve to different
\* domains or at least one of them is in neither table.
C1_NotConvertibleIsNone ==
    (pc = "convert_unit" /\ ~SameDomain(c_from, c_to)) => c_result = None

\* C1's case: convert_unit(1, "cup", "gram") was called and returned None.
C1_Witness ==
    /\ pc = "convert_unit"
    /\ c_amount = ONE /\ c_from = UnitCup /\ c_to = UnitGram
    /\ c_result = None

\* C2: for units of one domain, whatever their letter case, convert_unit
\* returns amount * factor(from) / factor(to) rounded to 3 decimal places;
\* convert_unit(2, "cups", "ml") is 473.176.
C2_SameDomainFormula ==
    (pc = "convert_unit" /\ SameDomain(c_from, c_to)) =>
        /\ IsNumber(c_result)
        /\ IsNearest(c_result.num, c_amount, FactorOf(c_from), FactorOf(c_to), Step3)
        /\ c_result \in convert_unit(c_amount, Lower(c_from), Lower(c_to))
        /\ (c_amount = 2 * ONE /\ Lower(c_from) = UnitCups /\ Lower(c_to) = UnitMl)
              => c_result = Num(4731760)

\* C2's case: convert_unit(2, "CUPS", "Ml") returned 473.176.
C2_Witness ==
    /\ pc = "convert_unit"
    /\ c_amount = 2 * ONE /\ c_from = Upper(UnitCups) /\ c_to = Capitalize(UnitMl)
    /\ c_result = Num(4731760)

\* C3 as stated: the way there and back differs from the amount by no more
\* than the 3-decimal rounding tolerance (0.001).
C3_RoundTripWithinTolerance ==
    pc = "round_trip" => (IsNumber(c_back) /\ Abs(c_back.num - c_amount) <= Step3)

\* C3 amended: the way there and back differs from the amount by no more than
\* 0.0005 * (1 + factor(b) / factor(a)): the rounding of the way back, plus
\* the rounding of the way there magnified by factor(b) / factor(a).
C3_RoundTripBound ==
    pc = "round_trip" =>
        /\ IsNumber(c_back)
        /\ Abs(c_back.num - c_amount) <=
              ((Step3 \div 2) * (FactorOf(c_from) + FactorOf(c_to))) \div FactorOf(c_from)

\* C3's case: 1 tsp converted to liters (0.005) and back is 1.014 tsp.
C3_Witness ==
    /\ pc = "round_trip"
    /\ c_amount = ONE /\ c_from = UnitTsp /\ c_to = UnitL
    /\ c_result = Num(50) /\ c_back = Num(10140)

\* C4 as stated: convert_unit(x, u, u) == x for every unit u of the tables.
C4_IdentityExact ==
    (pc = "convert_unit" /\ c_from \in TableUnits /\ c_to = c_from) =>
        c_result = Num(c_amount)

\* C4 amended: convert_unit(x, u, u) is x rounded to 3 decimal places, and so
\* equals x whenever x has at most 3 decimal places.
C4_IdentityRounded ==
    (pc = "convert_unit" /\ c_from \in TableUnits /\ c_to = c_from) =>
        /\ IsNumber(c_result)
        /\ c_result.num % Step3 = 0
        /\ 2 * Abs(c_result.num - c_amount) <= Step3
        /\ (c_amount % Step3 = 0 => c_result.num = c_amount)

\* C4's case: convert_unit(0.125, "cup", "cup") returned 0.125.
C4_Witness ==
    /\ pc = "convert_unit"
    /\ c_amount = 1250 /\ c_from = UnitCup /\ c_to = UnitCup
    /\ c_result = Num(1250)

-----------------------------------------------------------------------------
(* Claims about scale_recipe, checked under SpecScale *)

\* Ingredient i of the input has a numeric amount.
NumericAt(i) == IsNumber(Get(s_before.ingredients[i], "amount", None))

\* The scaled ingredient i is the input's with only its amount replaced.
OnlyAmountChanged(i) ==
    /\ DOMAIN s_scaled.ingredients[i] = DOMAIN s_before.ingredients[i]
    /\ \A k \in DOMAIN s_before.ingredients[i] \ {"amount"} :
          s_scaled.ingredients[i][k] = s_before.ingredients[i][k]

\* C5: the factor is new_servings / servings, or 1 when servings is 0; a
\* numeric amount becomes round(amount * factor, 2) and any other amount is
\* passed through unchanged; servings 4 -> 8 turns 2 into 4.0.
C5_ScaledAmounts ==
    pc = "scale_recipe" =>
        /\ Len(s_scaled.ingredients) = Len(s_before.ingredients)
        /\ \A i \in 1..Len(s_before.ingredients) :
              IF NumericAt(i)
              THEN LET a == s_before.ingredients[i]["amount"].num
                       r == s_scaled.ingredients[i]["amount"]
                       sv == s_before.servings
                   IN  /\ OnlyAmountChanged(i)
                       /\ IsNumber(r)
                       /\ IF sv = 0
                          THEN IsNearest(r.num, a, 1, 1, Step2)
                          ELSE IsNearest(r.num,
                                         IF (s_new < 0) = (sv < 0) THEN a ELSE -a,
                                         Abs(s_new), Abs(sv), Step2)
                       /\ (sv = 4 /\ s_new = 8 /\ a = 2 * ONE) => r = Num(4 * ONE)
              ELSE s_scaled.ingredients[i] = s_before.ingredients[i]

\* C5's case: a recipe for 4 with "some" sugar, 2 cup flour and bare salt was
\* scaled to 8: the flour is 4.0 and the free-text amount is as it was.
C5_Witness ==
    /\ pc = "scale_recipe"
    /\ s_before.servings = 4 /\ s_new = 8
    /\ s_before.ingredients = <<SugarSome, Flour2, SaltBare>>
    /\ s_scaled.ingredients[1] = SugarSome
    /\ s_scaled.ingredients[2]["amount"] = Num(4 * ONE)

\* C6 as stated: scaling a recipe whose servings is 0 returns every
\* ingredient amount unchanged.
C6_ZeroServingsUnchanged ==
    (pc = "scale_recipe" /\ s_before.servings = 0) =>
        \A i \in 1..Len(s_before.ingredients) :
            s_scaled.ingredients[i] = s_before.ingredients[i]

\* C6 amended: scaling a recipe whose servings is 0 returns every numeric
\* amount rounded to 2 decimal places, so unchanged when it has at most 2
\* decimal places, and every other amount unchanged.
C6_ZeroServingsRounded ==
    (pc = "scale_recipe" /\ s_before.servings = 0) =>
        /\ Len(s_scaled.ingredients) = Len(s_before.ingredients)
        /\ \A i \in 1..Len(s_before.ingredients) :
              IF NumericAt(i)
              THEN LET a == s_before.ingredients[i]["amount"].num
                       r == s_scaled.ingredients[i]["amount"]
                   IN  /\ OnlyAmountChanged(i)
                       /\ IsNumber(r)
                       /\ r.num % Step2 = 0
                       /\ 2 * Abs(r.num - a) <= Step2
                       /\ (a % Step2 = 0 => r.num = a)
              ELSE s_scaled.ingredients[i] = s_before.ingredients[i]

\* C6's case: a recipe with servings 0 holding 0.3333 l milk was scaled to 4
\* servings and the milk came back as 0.33.
C6_Witness ==
    /\ pc = "scale_recipe"
    /\ s_before.servings = 0 /\ s_new = 4
    /\ s_before.ingredients = <<Milk, Butter>>
    /\ s_scaled.ingredients[1]["amount"] = Num(3300)

\* C7: a call of scale_recipe leaves the record store and the input recipe as
\* they were, and returns a recipe with the input's name, category,
\* instructions, prep_time, cook_time and ingredient order, and with servings
\* equal to new_servings, whatever integer that is.
C7_ScaleFrame ==
    [][pc' = "scale_recipe" =>
         /\ store' = store
         /\ s_recipe' = s_before'
         /\ s_scaled'.name = s_before'.name
         /\ s_scaled'.category = s_before'.category
         /\ s_scaled'.instructions = s_before'.instructions
         /\ s_scaled'.prep_time = s_before'.prep_time
         /\ s_scaled'.cook_time = s_before'.cook_time
         /\ Len(s_scaled'.ingredients) = Len(s_before'.ingredients)
         /\ \A i \in 1..Len(s_before'.ingredients) :
               /\ Get(s_scaled'.ingredients[i], "item", None)
                     = Get(s_before'.ingredients[i], "item", None)
               /\ Get(s_scaled'.ingredients[i], "unit", None)
                     = Get(s_before'.ingredients[i], "unit", None)
         /\ s_scaled'.servings = s_new']_vars

\* C7's case: a stored recipe for 4 with three ingredients was scaled to -1
\* servings: its amounts changed in the result and not in the input.
C7_Witness ==
    /\ pc = "scale_recipe"
    /\ s_before.servings = 4 /\ s_new = -1 /\ s_scaled.servings = -1
    /\ Len(s_before.ingredients) = 3
    /\ s_scaled.ingredients # s_before.ingredients
    /\ s_recipe = s_before
    /\ to_dict(s_before) \in {store[i] : i \in 1..Len(store)}

-----------------------------------------------------------------------------
(* Claims about the aggregator, checked under SpecShop *)

\* C8: the aggregator never raises: generate_shopping_list returns a shopping
\* list and format_shopping_list of that list returns a string, whatever the
\* order of numbers and free-text amounts within an item/unit bucket.
C8_NeverRaises ==
    pc = "format_shopping_list" => ~IsRaised(formatted)

\* The stored recipes whose name equals `name` ignoring case.
StoredMatches(name) ==
    {i \in 1..Len(store) : Lower(store[i].name) = Lower(name)}

\* The entries of the shopping list, as <<item, position>> pairs.
EntryPlaces ==
    UNION {{<<k, j>> : j \in 1..Len(shopping[k])} : k \in DOMAIN shopping}

\* C9: every entry's source recipe name is the name of a stored recipe that
\* equals some requested name ignoring case; when no requested name matches
\* the result is empty; and a requested name that, ignoring case, is the name
\* of stored recipes with ingredients does leave entries.
C9_NamesResolved ==
    pc = "generate_shopping_list" =>
        /\ \A e \in EntryPlaces :
              \E n \in 1..Len(sh_names) : \E i \in StoredMatches(sh_names[n]) :
                  store[i].name = shopping[e[1]][e[2]].recipe
        /\ (\A n \in 1..Len(sh_names) : StoredMatches(sh_names[n]) = {})
              => DOMAIN shopping = {}
        /\ \A n \in 1..Len(sh_names) :
              (/\ StoredMatches(sh_names[n]) # {}
               /\ \A i \in StoredMatches(sh_names[n]) : store[i].ingredients # <<>>)
              => \E e \in EntryPlaces :
                    Lower(shopping[e[1]][e[2]].recipe) = Lower(sh_names[n])

\* C9's case: "pie" and "Nope" were requested from a store holding "Pie" and
\* "Jam": the list holds entries, all of them from "Pie".
C9_Witness ==
    /\ pc = "generate_shopping_list"
    /\ sh_names = <<Lower(NamePie), NameNope>>
    /\ Len(store) = 2 /\ store[1].name = NamePie /\ store[2].name = NameJam
    /\ store[2].ingredients # <<>>
    /\ EntryPlaces # {}
    /\ \A e \in EntryPlaces : shopping[e[1]][e[2]].recipe = NamePie

\* The ingredients of the resolved recipes, in request order then ingredient
\* order, each with the name of its recipe; from requested name n on.
RECURSIVE ResolvedIngredients(_, _)
ResolvedIngredients(recipes, n) ==
    IF n > Len(sh_names) THEN <<>>
    ELSE LET r == recipe_dict_get(recipes, Lower(sh_names[n]))
         IN  (IF r = None THEN <<>>
              ELSE [i \in 1..Len(r.ingredients) |->
                        [ing |-> r.ingredients[i], recipe |-> r.name]])
             \o ResolvedIngredients(recipes, n + 1)

\* The entries expected in the bucket `item`.
ExpectedBucket(flat, item) ==
    LET InBucket(x) == Lower(Get(x.ing, "item", <<>>)) = item
        sel == SelectSeq(flat, InBucket)
    IN  [j \in 1..Len(sel) |->
            [amount |-> Get(sel[j].ing, "amount", Num(0)),
             unit |-> Get(sel[j].ing, "unit", <<>>),
             recipe |-> sel[j].recipe]]

\* C10: every ingredient of every resolved recipe gives exactly one entry
\* {amount, unit, recipe name}, in the bucket of its lowercased item name, in
\* request order then ingredient order; the buckets are exactly the lowercased
\* item names, whatever the units.
C10_Buckets ==
    pc = "generate_shopping_list" =>
        LET flat == ResolvedIngredients(load_recipes(store), 1)
        IN  /\ DOMAIN shopping =
                  {Lower(Get(flat[i].ing, "item", <<>>)) : i \in 1..Len(flat)}
            /\ \A item \in DOMAIN shopping :
                  shopping[item] = ExpectedBucket(flat, item)

\* C10's case: "pie" then "JAM" were requested; "Pie" needs Sugar by the cup
\* twice and "Jam" needs SUGAR by the ml and salt: the sugar bucket holds the
\* three entries in that order and the salt bucket one.
C10_Witness ==
    /\ pc = "generate_shopping_list"
    /\ sh_names = <<Lower(NamePie), Upper(NameJam)>>
    /\ DOMAIN shopping = {<<"s","u","g","a","r">>, <<"s","a","l","t">>}
    /\ shopping[<<"s","u","g","a","r">>] =
          <<[amount |-> Num(ONE), unit |-> <<"c","u","p">>, recipe |-> NamePie],
            [amount |-> Str("some"), unit |-> <<"c","u","p">>, recipe |-> NamePie],
            [amount |-> Num(5000), unit |-> <<"m","l">>, recipe |-> NameJam]>>
    /\ Len(shopping[<<"s","a","l","t">>]) = 1


-----------------------------------------------------------------------------
(* Claims about format_shopping_list, checked under SpecShop *)

\* The units of the entries of an item.
UnitsOf(item) == {shopping[item][i].unit : i \in 1..Len(shopping[item])}

\* The entries of an item with a given unit, as their positions.
UnitEntries(item, unit) ==
    {i \in 1..Len(shopping[item]) : shopping[item][i].unit = unit}

\* The sum of the numeric amounts among the entries at the positions in `at`.
RECURSIVE SumNumeric(_, _)
SumNumeric(item, at) ==
    IF at = {} THEN 0
    ELSE LET i == CHOOSE i \in at : TRUE
         IN  (IF IsNumber(shopping[item][i].amount)
              THEN shopping[item][i].amount.num ELSE 0)
             + SumNumeric(item, at \ {i})

AllNumeric(item, unit) ==
    \A i \in UnitEntries(item, unit) : IsNumber(shopping[item][i].amount)

\* A number comes after a free-text amount among the entries of one item and
\* one unit.
NumberAfterText ==
    \E item \in DOMAIN shopping : \E i, j \in 1..Len(shopping[item]) :
        /\ i < j
        /\ shopping[item][i].unit = shopping[item][j].unit
        /\ ~IsNumber(shopping[item][i].amount)
        /\ IsNumber(shopping[item][j].amount)

\* The fragments of the line of an item in the formatted list.
FragmentsOf(item) ==
    LET at == CHOOSE k \in 1..Len(formatted.ok) :
                  /\ "item" \in DOMAIN formatted.ok[k]
                  /\ formatted.ok[k].item = item
    IN  formatted.ok[at].parts

\* The fragments of an item's line that are for a given unit.
FragmentsFor(item, unit) ==
    {k \in 1..Len(FragmentsOf(item)) : FragmentsOf(item)[k].unit = unit}

\* C11 as stated: whenever format_shopping_list returns, the line of every
\* item has, for each non-empty unit string among the item's entries, exactly
\* one fragment, which reads the sum of the numeric amounts of that item with
\* that unit (an integral sum without a fractional part) followed by the unit.
C11_SumPerUnit ==
    (pc = "format_shopping_list" /\ ~IsRaised(formatted)) =>
        \A item \in DOMAIN shopping : \A unit \in UnitsOf(item) \ {<<>>} :
            /\ Cardinality(FragmentsFor(item, unit)) = 1
            /\ \A k \in FragmentsFor(item, unit) :
                  FragmentsOf(item)[k].text
                      = Fragment(unit, Num(SumNumeric(item, UnitEntries(item, unit))))

\* C11, amended: format_shopping_list raises TypeError exactly when a number
\* comes after a free-text amount of the same item and unit; otherwise the
\* line of every item has at most one fragment per literal unit string, and a
\* unit whose amounts are all numeric has the fragment "<sum> <unit>" (the sum
\* without a fractional part when integral) when the unit is not empty, the
\* bare sum when the unit is empty and the sum is not zero, and no fragment
\* when the unit is empty and the sum is zero.
C11_NumericSumPerUnit ==
    pc = "format_shopping_list" =>
        IF NumberAfterText THEN formatted = Raised("TypeError")
        ELSE /\ ~IsRaised(formatted)
             /\ \A item \in DOMAIN shopping :
                   /\ \A k \in 1..Len(FragmentsOf(item)) :
                         FragmentsOf(item)[k].unit \in UnitsOf(item)
                   /\ \A unit \in UnitsOf(item) :
                         LET sum == SumNumeric(item, UnitEntries(item, unit))
                             shown == FragmentsFor(item, unit)
                         IN  /\ Cardinality(shown) <= 1
                             /\ AllNumeric(item, unit) =>
                                   IF unit = <<>> /\ sum = 0 THEN shown = {}
                                   ELSE /\ Cardinality(shown) = 1
                                        /\ \A k \in shown :
                                              FragmentsOf(item)[k].text
                                                  = Fragment(unit, Num(sum))

\* C11's case: two recipes that each need 1.5 "Cup" and 1 "cup" of sugar have
\* been formatted: the line of sugar reads "3 Cup, 2 cup".
C11_Witness ==
    /\ pc = "format_shopping_list"
    /\ ~IsRaised(formatted)
    /\ \E item \in DOMAIN shopping :
          /\ Len(shopping[item]) = 4
          /\ shopping[item][1].recipe # shopping[item][3].recipe
          /\ Len(FragmentsOf(item)) = 2
          /\ FragmentsOf(item)[1].text = <<"3", " ", "C", "u", "p">>
          /\ FragmentsOf(item)[2].text = <<"2", " ", "c", "u", "p">>

\* The last entry of an item with a given unit.
LastEntry(item, unit) ==
    LET at == UnitEntries(item, unit)
    IN  shopping[item][CHOOSE i \in at : \A j \in at : j <= i]

\* C12: after format_shopping_list, for every item and unit string whose
\* entries include a non-numeric amount, the list is formatted and the one
\* fragment of that unit reads the amount of the last of those entries (a
\* non-numeric amount as it is), followed by the unit when the unit is not
\* empty.
C12_LastOneWins ==
    pc = "format_shopping_list" =>
        \A item \in DOMAIN shopping : \A unit \in UnitsOf(item) :
            ~AllNumeric(item, unit) =>
                /\ ~IsRaised(formatted)
                /\ Cardinality(FragmentsFor(item, unit)) = 1
                /\ \A k \in FragmentsFor(item, unit) :
                      FragmentsOf(item)[k].text
                          = Fragment(unit, LastEntry(item, unit).amount)

-----------------------------------------------------------------------------
(* Claims about the record store, checked under SpecStore *)

\* C13: no two recipes in the data file have names that are equal ignoring
\* case, after any sequence of add_recipe, update_recipe, delete_recipe and
\* import_recipes calls from the empty store.
C13_NamesUnique ==
    \A i, j \in 1..Len(store) :
        i # j => Lower(store[i].name) # Lower(store[j].name)

\* C14: when load_recipes follows an update_recipe that replaced a stored
\* recipe by one carrying a rating and a favorite flag, the list it returns
\* holds that recipe with the same rating and the same favorite flag.
C14_RatingAndFavoritePreserved ==
    (/\ pc = "load_recipes"
     /\ st_call.op = "update_recipe"
     /\ returned = Ok(TRUE)
     /\ "favorite" \in DOMAIN st_call.recipe) =>
        \E i \in 1..Len(loaded.ok) :
            /\ loaded.ok[i].name = st_call.recipe.name
            /\ loaded.ok[i].rating = st_call.recipe.rating
            /\ "favorite" \in DOMAIN loaded.ok[i]
            /\ loaded.ok[i].favorite = st_call.recipe.favorite

-----------------------------------------------------------------------------
(* Claims about load_recipes, checked under SpecLoad *)

\* The data file holds a well-formed array of recipe objects.
WellFormed(content) ==
    /\ "json" \in DOMAIN content
    /\ "array" \in DOMAIN content.json
    /\ \A i \in 1..Len(content.json.array) :
          /\ "object" \in DOMAIN content.json.array[i]
          /\ RequiredKeys \subseteq DOMAIN content.json.array[i].object

\* C15: for every content of the data file that is not a well-formed array of
\* recipe objects, load_recipes returns [] and does not raise.
C15_MalformedGivesEmpty ==
    (pc = "load_recipes" /\ ~WellFormed(store)) => loaded = Ok(<<>>)

-----------------------------------------------------------------------------
(* Claims about the rating under scale_recipe, checked under SpecScale *)

\* C16: the Recipe that scale_recipe returns has rating 0 whatever the rating
\* of the input recipe, and the input recipe keeps the rating it was loaded
\* with.
C16_RatingNotCarried ==
    pc = "scale_recipe" =>
        /\ s_scaled.rating = 0
        /\ s_recipe.rating = s_before.rating
        /\ \E i \in 1..Len(store) :
              /\ store[i].name = s_before.name
              /\ Get(store[i], "rating", 0) = s_recipe.rating

\* C16's case: a stored recipe rated 5 was scaled; the result is unrated and
\* the input recipe is still rated 5.
C16_Witness ==
    /\ pc = "scale_recipe"
    /\ s_before.rating = MaxRating
    /\ s_recipe.rating = MaxRating
    /\ s_scaled.rating = 0
    /\ s_scaled.servings # s_before.servings
=============================================================================
